---- MODULE Spec2Model ----
(***************************************************************************)
(* A state-machine model of the two runtime cores of GRID3_mapTiles:       *)
(*   - TileConfig (2-viewer/src/js/config.js): endpoint detection, the     *)
(*     health probe with its abort timer, endpoint selection, URL getters; *)
(*   - MapView / MapLibreView (app/src/MapView.tsx): the pmtiles protocol  *)
(*     registry, archiveInfo, the version compatibility effect, the        *)
(*     published-layers effect and the style handed to the map.            *)
(* Strings that the code takes apart or builds are sequences of parts.     *)
(***************************************************************************)
EXTENDS Integers, Sequences, FiniteSets, TLC

VARIABLES
    \* ---- TileConfig ----
    hostname,         \* window.location.hostname
    pathname,         \* window.location.pathname, as its split("/") segments
    isLocalhost,      \* this.isLocalhost
    isGitHubPages,    \* this.isGitHubPages
    githubPmtiles,    \* this.endpoints.github.pmtiles (Null until detected)
    currentEndpoint,  \* this.currentEndpoint
    selCalls,         \* selectBestEndpoint calls suspended at their await
    timers,           \* pending abort timers (ids of the probes that armed them)
    probes,           \* number of health probes issued so far
    nStarted,         \* number of selectBestEndpoint calls made
    nResolved,        \* number of selectBestEndpoint calls resolved
    lastReturn,       \* value the last resolved selectBestEndpoint returned
    lastOutcome,      \* how the probe of the last resolved call ended (history)
    out,              \* result of the last URL getter ("none", "throw", or a value)
    outOp,            \* the getter that returned out (history)
    outAt,            \* currentEndpoint when that getter ran (history)
    \* ---- MapView / MapLibreView ----
    phase,            \* "constructed" (before render), "mounted" or "disposed"
    tiles,            \* tiles signal (a URL, as <<stem, extension>>)
    npmVersion,       \* publishedStyleVersion signal (<<>> when undefined)
    flavorName,       \* flavorName signal
    droppedArchive,   \* droppedArchive signal (NoHandle when undefined)
    protocolTiles,    \* protocol.tiles: the registry, key -> handle
    constructed,      \* every PMTiles handle constructed so far
    infoCalls,        \* archiveInfo calls suspended at an await, oldest first
    mismatch,         \* mismatch signal: <<>> or <<style major, tileset major>>
    layerFetches,     \* layersForVersion fetches in flight, oldest first
    npmLayers,        \* npmLayers signal
    mapStyle,         \* the style last handed to the map
    unhandled,        \* kinds of errors raised out of a callback or promise
    lastCheck,        \* input of the last compatibility callback run (history)
    events,           \* user and map events handled so far
    locHash,          \* location.hash, as tokens
    lang,             \* lang signal
    localSprites,     \* localSprites signal
    showBoxes,        \* showBoxes signal
    openedWith,       \* the fragment the page was opened with (history)
    timelinessInfo,   \* timelinessInfo signal (<<>> when undefined)
    protocolRef,      \* protocolRef signal: a Protocol is set (FALSE when undefined)
    pmtilesProtocol,  \* the map library's protocol table has the entry "pmtiles"
    longPressTimeout, \* longPressTimeout: the id of the timer armed last (0: none yet)
    pressTimers,      \* ids of the long-press timers pending
    popup,            \* the popup of the context menu: "closed" or "open"
    pressCancelled,   \* ids of timers followed by a cancelling event (history)
    pressShown,       \* ids of timers whose callback has run (history)
    \* ---- getMaplibreStyle, called on its own ----
    cArgs,            \* the arguments of a call
    cOp,              \* "none", "compose" (memoizedStyle) or "mount" (the map's first style)
    cOut,             \* the style document the call returned
    \* ---- featureIdToOsmId, featureIdToOsmType, displayId ----
    fId,              \* the feature id given
    fOp,              \* "none", "decode" or "display": the last call made
    fDecoded,         \* what featureIdToOsmType and featureIdToOsmId returned
    fShown            \* what displayId returned

cfgVars == <<hostname, pathname, isLocalhost, isGitHubPages, githubPmtiles,
             currentEndpoint, selCalls, timers, probes, nStarted, nResolved,
             lastReturn, lastOutcome, out, outOp, outAt>>

mapVars == <<phase, tiles, npmVersion, flavorName, droppedArchive, protocolTiles,
             constructed, infoCalls, mismatch, layerFetches, npmLayers,
             mapStyle, unhandled, lastCheck, events, locHash, lang, localSprites,
             showBoxes, openedWith, timelinessInfo,
             protocolRef, pmtilesProtocol, longPressTimeout, pressTimers, popup,
             pressCancelled, pressShown>>

\* the long-press timer and the popup it opens
pressVars == <<longPressTimeout, pressTimers, popup, pressCancelled, pressShown>>

styleVars == <<cArgs, cOp, cOut>>

idVars == <<fId, fOp, fDecoded, fShown>>

vars == <<cfgVars, mapVars, styleVars, idVars>>

\* what the actions of one part leave alone
notCfg == <<mapVars, styleVars, idVars>>

notMap == <<cfgVars, styleVars, idVars>>

notStyle == <<cfgVars, mapVars, idVars>>

notId == <<cfgVars, mapVars, styleVars>>

Null == "null"

(***************************************************************************)
(* TileConfig                                                              *)
(***************************************************************************)

\* Bound: selectBestEndpoint calls made in one session.
MaxSelect == 2

Hostnames == {"localhost", "127.0.0.1", "ciesin.github.io", "maps.example.org"}

\* pathname.split('/') of "/", "/GRID3_mapTiles/" and "/index.html"
Pathnames == {<<"", "">>, <<"", "GRID3_mapTiles", "">>, <<"", "index.html">>}

HttpStatuses == {200, 204, 404, 503}

TileNames == {"buildings.pmtiles"}

TableNames == {"health_facilities"}

CaddyPmtiles == "http://127.0.0.1:3002/static"

CaddyMvt == "http://127.0.0.1:3002/mvt"

\* String.prototype.includes('github.io') on the hostnames of the model
IncludesGithubIo(h) == h \in {"ciesin.github.io"}

\* detectEnvironment: the flags and the fallback static-tile base
DetectLocalhost(h) == h = "localhost" \/ h = "127.0.0.1"

DetectGitHubPages(h) == IncludesGithubIo(h)

DetectGithubPmtiles(h, p) ==
    IF DetectGitHubPages(h)
    THEN LET repoName == IF p[2] # "" THEN p[2] ELSE ""
             basePath == IF repoName # "" THEN <<"/", repoName>> ELSE <<>>
         IN  basePath \o <<"/tiles">>
    ELSE IF DetectLocalhost(h) THEN <<"./tiles">>
    ELSE <<Null>>

\* Response.ok
ResponseOk(status) == status >= 200 /\ status <= 299

CfgInit ==
    /\ hostname \in Hostnames
    /\ pathname \in Pathnames
    /\ isLocalhost = DetectLocalhost(hostname)
    /\ isGitHubPages = DetectGitHubPages(hostname)
    /\ githubPmtiles = DetectGithubPmtiles(hostname, pathname)
    /\ currentEndpoint = Null
    /\ selCalls = {}
    /\ timers = {}
    /\ probes = 0
    /\ nStarted = 0
    /\ nResolved = 0
    /\ lastReturn = Null
    /\ lastOutcome = "none"
    /\ out = <<"none">>
    /\ outOp = "none"
    /\ outAt = Null

\* what no action after the constructor writes
envVars == <<hostname, pathname, isLocalhost, isGitHubPages, githubPmtiles>>

\* checkCaddyAvailability up to its await: controller, abort timer, fetch
ProbeStart(id) ==
    /\ selCalls' = selCalls \cup
          {[id |-> id, pc |-> "probing", outcome |-> "none", status |-> 0, ok |-> FALSE]}
    /\ timers' = timers \cup {id}
    /\ probes' = probes + 1

\* (mutant) only a localhost page probes; a GitHub Pages page takes the default
SelectBestEndpointLocalOnly ==
    /\ UNCHANGED notCfg
    /\ nStarted < MaxSelect
    /\ nStarted' = nStarted + 1
    /\ IF isLocalhost
       THEN /\ ProbeStart(nStarted + 1)
            /\ UNCHANGED <<currentEndpoint, nResolved, lastReturn, lastOutcome>>
       ELSE /\ currentEndpoint' = "github"
            /\ lastReturn' = "github"
            /\ lastOutcome' = "none"
            /\ nResolved' = nResolved + 1
            /\ UNCHANGED <<selCalls, timers, probes>>
    /\ UNCHANGED <<envVars, out, outOp, outAt>>

\* selectBestEndpoint up to its first await (or to its end, on other hosts)
SelectBestEndpoint ==
    /\ UNCHANGED notCfg
    /\ nStarted < MaxSelect
    /\ nStarted' = nStarted + 1
    /\ IF isLocalhost
       THEN /\ ProbeStart(nStarted + 1)
            /\ UNCHANGED <<currentEndpoint, nResolved, lastReturn, lastOutcome>>
       ELSE IF isGitHubPages
       THEN /\ ProbeStart(nStarted + 1)
            /\ UNCHANGED <<currentEndpoint, nResolved, lastReturn, lastOutcome>>
       ELSE /\ currentEndpoint' = "github"
            /\ lastReturn' = "github"
            /\ lastOutcome' = "none"
            /\ nResolved' = nResolved + 1
            /\ UNCHANGED <<selCalls, timers, probes>>
    /\ UNCHANGED <<envVars, out, outOp, outAt>>

\* (mutant) the catch block rethrows instead of returning false
ProbeResultRethrow(c, outcome, status) ==
    [c EXCEPT !.pc = IF outcome = "response" THEN "probed" ELSE "threw",
              !.outcome = outcome, !.status = status,
              !.ok = IF outcome = "response" THEN ResponseOk(status) ELSE FALSE]

\* what the probe returns once fetch has settled: response.ok, or false from
\* the catch block
ProbeResult(c, outcome, status) ==
    [c EXCEPT !.pc = "probed", !.outcome = outcome, !.status = status,
              !.ok = IF outcome = "response" THEN ResponseOk(status) ELSE FALSE]

\* fetch resolves with a response: clearTimeout, return response.ok
FetchRespond(c, status) ==
    /\ UNCHANGED notCfg
    /\ c \in selCalls /\ c.pc = "probing"
    /\ selCalls' = (selCalls \ {c}) \cup {ProbeResult(c, "response", status)}
    /\ timers' = timers \ {c.id}
    /\ UNCHANGED <<envVars, currentEndpoint, probes, nStarted, nResolved, lastReturn, lastOutcome, out, outOp, outAt>>

\* (mutant) the catch block itself falls back to the GitHub endpoint
FetchRejectSetsEndpoint(c) ==
    /\ UNCHANGED notCfg
    /\ c \in selCalls /\ c.pc = "probing"
    /\ selCalls' = (selCalls \ {c}) \cup {ProbeResult(c, "network", 0)}
    /\ currentEndpoint' = "github"
    /\ UNCHANGED <<envVars, timers, probes, nStarted, nResolved, lastReturn, lastOutcome, out, outOp, outAt>>

\* fetch rejects (network or CORS failure): the catch block returns false;
\* the abort timer is not cleared on this path
FetchReject(c) ==
    /\ UNCHANGED notCfg
    /\ c \in selCalls /\ c.pc = "probing"
    /\ selCalls' = (selCalls \ {c}) \cup {ProbeResult(c, "network", 0)}
    /\ UNCHANGED <<envVars, currentEndpoint, timers, probes, nStarted, nResolved,
                   lastReturn, lastOutcome, out, outOp, outAt>>

\* (mutant) the timer callback does not abort the request
TimerFireNoAbort(id) ==
    /\ UNCHANGED notCfg
    /\ id \in timers
    /\ timers' = timers \ {id}
    /\ UNCHANGED <<envVars, selCalls, currentEndpoint, probes, nStarted, nResolved,
                   lastReturn, lastOutcome, out, outOp, outAt>>

\* the 2000 ms timer fires: controller.abort() rejects a fetch still in flight,
\* and the catch block returns false; on a settled fetch the abort does nothing
TimerFire(id) ==
    /\ UNCHANGED notCfg
    /\ id \in timers
    /\ timers' = timers \ {id}
    /\ selCalls' = {IF c.id = id /\ c.pc = "probing" THEN ProbeResult(c, "abort", 0) ELSE c
                    : c \in selCalls}
    /\ UNCHANGED <<envVars, currentEndpoint, probes, nStarted, nResolved, lastReturn, lastOutcome, out, outOp, outAt>>

\* selectBestEndpoint after its await: store and return the class
SelectResume(c) ==
    /\ UNCHANGED notCfg
    /\ c \in selCalls /\ c.pc = "probed"
    /\ selCalls' = selCalls \ {c}
    /\ currentEndpoint' = IF c.ok THEN "caddy" ELSE "github"
    /\ lastReturn' = IF c.ok THEN "caddy" ELSE "github"
    /\ lastOutcome' = c.outcome
    /\ nResolved' = nResolved + 1
    /\ UNCHANGED <<envVars, timers, probes, nStarted, out, outOp, outAt>>

\* (mutant) the static-tile URL is built without asking whether an endpoint
\* has been selected
GetPMTilesUrlUnguarded(tileName) ==
    /\ UNCHANGED notCfg
    /\ outOp' = "getPMTilesUrl"
    /\ outAt' = currentEndpoint
    /\ out' = <<"pmtiles://">>
              \o (IF currentEndpoint = "caddy" THEN <<CaddyPmtiles>> ELSE githubPmtiles)
              \o <<"/", tileName>>
    /\ UNCHANGED <<envVars, currentEndpoint, selCalls, timers, probes, nStarted,
                   nResolved, lastReturn, lastOutcome>>

\* getPMTilesUrl(tileName)
GetPMTilesUrl(tileName) ==
    /\ UNCHANGED notCfg
    /\ outOp' = "getPMTilesUrl"
    /\ outAt' = currentEndpoint
    /\ out' = IF currentEndpoint = Null THEN <<"throw">>
              ELSE <<"pmtiles://">>
                   \o (IF currentEndpoint = "caddy" THEN <<CaddyPmtiles>> ELSE githubPmtiles)
                   \o <<"/", tileName>>
    /\ UNCHANGED <<envVars, currentEndpoint, selCalls, timers, probes, nStarted,
                   nResolved, lastReturn, lastOutcome>>

\* getPMTilesBaseUrl(tileName)
GetPMTilesBaseUrl(tileName) ==
    /\ UNCHANGED notCfg
    /\ outOp' = "getPMTilesBaseUrl"
    /\ outAt' = currentEndpoint
    /\ out' = IF currentEndpoint = Null THEN <<"throw">>
              ELSE (IF currentEndpoint = "caddy" THEN <<CaddyPmtiles>> ELSE githubPmtiles)
                   \o <<"/", tileName>>
    /\ UNCHANGED <<envVars, currentEndpoint, selCalls, timers, probes, nStarted,
                   nResolved, lastReturn, lastOutcome>>

\* (mutant) the URL is built whenever an endpoint has been selected
GetMVTUrlAnyEndpoint(tableName) ==
    /\ UNCHANGED notCfg
    /\ outOp' = "getMVTUrl"
    /\ outAt' = currentEndpoint
    /\ out' = IF currentEndpoint # Null
              THEN <<CaddyMvt, "/", tableName, "/{z}/{x}/{y}">>
              ELSE <<Null>>
    /\ UNCHANGED <<envVars, currentEndpoint, selCalls, timers, probes, nStarted,
                   nResolved, lastReturn, lastOutcome>>

\* getMVTUrl(tableName)
GetMVTUrl(tableName) ==
    /\ UNCHANGED notCfg
    /\ outOp' = "getMVTUrl"
    /\ outAt' = currentEndpoint
    /\ out' = IF currentEndpoint = "caddy"
              THEN <<CaddyMvt, "/", tableName, "/{z}/{x}/{y}">>
              ELSE <<Null>>
    /\ UNCHANGED <<envVars, currentEndpoint, selCalls, timers, probes, nStarted,
                   nResolved, lastReturn, lastOutcome>>

\* isMVTAvailable()
IsMVTAvailable ==
    /\ UNCHANGED notCfg
    /\ outOp' = "isMVTAvailable"
    /\ outAt' = currentEndpoint
    /\ out' = <<IF currentEndpoint = "caddy" THEN "true" ELSE "false">>
    /\ UNCHANGED <<envVars, currentEndpoint, selCalls, timers, probes, nStarted,
                   nResolved, lastReturn, lastOutcome>>

CfgNext ==
    \/ SelectBestEndpoint
    \/ \E c \in selCalls, s \in HttpStatuses : FetchRespond(c, s)
    \/ \E c \in selCalls : FetchReject(c)
    \/ \E id \in timers : TimerFire(id)
    \/ \E c \in selCalls : SelectResume(c)
    \/ \E t \in TileNames : GetPMTilesUrl(t)
    \/ \E t \in TileNames : GetPMTilesBaseUrl(t)
    \/ \E t \in TableNames : GetMVTUrl(t)
    \/ IsMVTAvailable

(***************************************************************************)
(* MapView / MapLibreView                                                  *)
(***************************************************************************)

\* Bound: user and map events (drop, key press, idle, tile request) handled.
MaxEvents == 2

\* touch starts followed
MaxTouches == 2

STYLE_MAJOR_VERSION == 5

DEFAULT_TILES == <<"https://pub-927f42809d2e4b89b96d1e7efb091d1f.r2.dev/global", ".pmtiles">>

\* tiles values the fragment can supply: a relative archive URL, a TileJSON URL
TilesUrls == {DEFAULT_TILES, <<"a", ".pmtiles">>, <<"tiles", ".json">>}

\* names of the files a user can drop
FileNames == {<<"a", ".pmtiles">>, <<"b", ".pmtiles">>}

\* a tiles URL with a query string, and the names of the registry
QueryTiles == <<"t?k", "=", "v", "&", "z", ".pmtiles">>

Keys == TilesUrls \cup FileNames \cup {QueryTiles}

\* version strings, as their characters
Versions == {<<"2", ".", "0", ".", "1">>, <<"3", ".", "1">>, <<"9", ".", "0">>}

\* metadata documents: with or without a version field
Metas == {[has |-> FALSE, version |-> <<>>]} \cup {[has |-> TRUE, version |-> v] : v \in Versions}

\* npm_version values of the fragment (<<>>: absent)
NpmVersions == {<<>>, <<"2", ".", "0">>, <<"3", ".", "2">>}

\* handleKeyPress: charCode 49..53 selects one of these
KeyFlavors == <<"light", "dark", "white", "grayscale", "black">>

KeyCodes == {48, 49, 50, 51}

NoHandle == [id |-> 0, key |-> <<>>, kind |-> "none", meta |-> [has |-> FALSE, version |-> <<>>]]

NoCheck == [ran |-> FALSE, style |-> 0, meta |-> [has |-> FALSE, version |-> <<>>]]

NaN == -1

Digits == <<"0", "1", "2", "3", "4", "5", "6", "7", "8", "9">>

IsDigit(ch) == \E i \in 1..10 : Digits[i] = ch

DigitVal(ch) == (CHOOSE i \in 1..10 : Digits[i] = ch) - 1

\* s.split(".")[0]: the characters before the first "."
RECURSIVE SplitFirst(_)
SplitFirst(s) ==
    IF s = <<>> \/ Head(s) = "." THEN <<>>
    ELSE <<Head(s)>> \o SplitFirst(Tail(s))

\* unary plus on a string of the model: "" is 0, digits their value, else NaN
RECURSIVE DigitsValue(_, _)
DigitsValue(s, acc) ==
    IF s = <<>> THEN acc
    ELSE IF ~IsDigit(Head(s)) THEN NaN
    ELSE DigitsValue(Tail(s), acc * 10 + DigitVal(Head(s)))

ToNumber(s) == DigitsValue(s, 0)

MajorOf(version) == ToNumber(SplitFirst(version))

\* the compatibility table: tileset major -> compatible style majors
VERSION_COMPATIBILITY == [t \in {2, 3} |-> IF t = 2 THEN <<2, 3>> ELSE <<3>>]

\* Array.prototype.indexOf: the 0-based index of x, or -1
IndexOf(arr, x) ==
    IF \E i \in 1..Len(arr) : arr[i] = x
    THEN (CHOOSE i \in 1..Len(arr) : arr[i] = x /\ \A j \in 1..(i - 1) : arr[j] # x) - 1
    ELSE -1

\* styleMajorVersion of the compatibility effect
StyleMajorVersion(v) == IF v # <<>> THEN MajorOf(v) ELSE STYLE_MAJOR_VERSION

\* String.prototype.endsWith(".json") on a URL of the model
EndsWithJson(url) == url[Len(url)] = ".json"

\* isValidPMTiles(tiles): a recognized tile-archive URL
IsValidPMTiles(url) == url # <<>> /\ url[Len(url)] = ".pmtiles"

\* namedFlavor(name): the theme definition of a flavor name
NamedFlavor(name) == [name |-> name]

LayerIds == <<"land", "water", "roads">>

\* layers(source, flavor, {lang}): the generated stack, bottom to top
Layers(source, flavor, lng) ==
    [i \in 1..Len(LayerIds) |->
        [id |-> LayerIds[i], flavor |-> flavor.name, lang |-> lng, version |-> <<>>]]

\* layersForVersion(version, flavorName): the published layer set, once fetched
LayersForVersion(version, fName) ==
    [i \in 1..Len(LayerIds) |->
        [id |-> LayerIds[i], flavor |-> fName, lang |-> "en", version |-> version]]

EmptyStyle == [sources |-> <<>>, layers |-> <<>>, sprite |-> <<>>]

\* (mutant) a dropped archive is used only when the URL is not an archive URL
TilesWithProtocolUrlFirst(tls, dropped) ==
    IF IsValidPMTiles(tls) THEN <<"pmtiles://">> \o tls
    ELSE IF dropped # NoHandle THEN <<"pmtiles://">> \o dropped.key
    ELSE tls

\* getMaplibreStyle: tilesWithProtocol
TilesWithProtocol(tls, dropped) ==
    IF dropped # NoHandle THEN <<"pmtiles://">> \o dropped.key
    ELSE IF IsValidPMTiles(tls) THEN <<"pmtiles://">> \o tls
    ELSE tls

\* (mutant) the override layers are put on top of the generated stack
StyleLayersAppend(layersArg, flavor, lng) ==
    Layers("protomaps", flavor, lng) \o layersArg

\* (mutant) the generated stack is emitted top to bottom
StyleLayersReversed(layersArg, flavor, lng) ==
    IF Len(layersArg) > 0 THEN layersArg
    ELSE LET g == Layers("protomaps", flavor, lng)
         IN  [i \in 1..Len(g) |-> g[Len(g) + 1 - i]]

\* getMaplibreStyle: style.layers, [] concatenated with the override layers
\* or with the generated stack
StyleLayers(layersArg, flavor, lng) ==
    <<>> \o (IF Len(layersArg) > 0 THEN layersArg
             ELSE Layers("protomaps", flavor, lng))

\* (mutant) only a missing tile source gives the empty document
GetMaplibreStyleNoFlavorTest(lng, sprites, fName, flavor, tls, layersArg, dropped) ==
    IF tls = <<>> THEN EmptyStyle
    ELSE [sources |-> <<[name |-> "protomaps", type |-> "vector",
                         url |-> TilesWithProtocol(tls, dropped)]>>,
          layers  |-> IF Len(layersArg) > 0 THEN layersArg ELSE <<>>,
          sprite  |-> IF sprites THEN <<"location://", fName>>
                      ELSE <<"https://protomaps.github.io/basemaps-assets/sprites/v4/", fName>>]

\* getMaplibreStyle(lang, localSprites, flavorName, flavor, tiles, npmLayers, droppedArchive)
\* (an argument left out by the caller is <<>> or NoHandle)
GetMaplibreStyle(lng, sprites, fName, flavor, tls, layersArg, dropped) ==
    IF tls = <<>> THEN EmptyStyle
    ELSE IF flavor = <<>> THEN EmptyStyle
    ELSE [sources |-> <<[name |-> "protomaps", type |-> "vector",
                         url |-> TilesWithProtocol(tls, dropped)]>>,
          layers  |-> StyleLayers(layersArg, flavor, lng),
          sprite  |-> IF sprites THEN <<"location://", fName>>
                      ELSE <<"https://protomaps.github.io/basemaps-assets/sprites/v4/", fName>>]

\* memoizedStyle, for given values of the signals it reads
MemoizedStyle(fName, layersArg, dropped) ==
    GetMaplibreStyle(lang, localSprites, fName, NamedFlavor(fName), tiles, layersArg, dropped)

(***************************************************************************)
(* The fragment: location.hash as a sequence of tokens, "#", "&", "=" and  *)
(* the pieces of keys and of URL-encoded values.  parseHash and createHash *)
(* follow the contract of the view-state codec.                            *)
(***************************************************************************)

\* encodeURIComponent on one character of a value
EncAtom(a) ==
    CASE a = "&" -> "%26"
      [] a = "=" -> "%3D"
      [] a = "%" -> "%25"
      [] a = "#" -> "%23"
      [] OTHER -> a

\* decodeURIComponent on one token of an encoded value
DecAtom(a) ==
    CASE a = "%26" -> "&"
      [] a = "%3D" -> "="
      [] a = "%25" -> "%"
      [] a = "%23" -> "#"
      [] OTHER -> a

Enc(v) == [i \in 1..Len(v) |-> EncAtom(v[i])]

Dec(v) == [i \in 1..Len(v) |-> DecAtom(v[i])]

\* an encoded value that cannot be decoded: a "%" that starts no escape
Malformed(v) == \E i \in 1..Len(v) : v[i] = "%"

\* the tokens before the first sep, and those after it
RECURSIVE Before(_, _)
Before(t, sep) ==
    IF t = <<>> \/ Head(t) = sep THEN <<>>
    ELSE <<Head(t)>> \o Before(Tail(t), sep)

RECURSIVE After(_, _)
After(t, sep) ==
    IF t = <<>> THEN <<>>
    ELSE IF Head(t) = sep THEN Tail(t)
    ELSE After(Tail(t), sep)

HasSep(t, sep) == \E i \in 1..Len(t) : t[i] = sep

\* the index of key k in a list of key/value pairs, 0 if absent
IndexOfKey(pairs, k) ==
    IF \E i \in 1..Len(pairs) : pairs[i].k = k
    THEN CHOOSE i \in 1..Len(pairs) : pairs[i].k = k
    ELSE 0

\* obj[k] = v on an object with insertion order
Put(pairs, k, v) ==
    IF IndexOfKey(pairs, k) = 0 THEN Append(pairs, [k |-> k, v |-> v])
    ELSE [pairs EXCEPT ![IndexOfKey(pairs, k)] = [k |-> k, v |-> v]]

\* delete obj[k]
Remove(pairs, k) ==
    IF IndexOfKey(pairs, k) = 0 THEN pairs
    ELSE SubSeq(pairs, 1, IndexOfKey(pairs, k) - 1)
         \o SubSeq(pairs, IndexOfKey(pairs, k) + 1, Len(pairs))

\* the pairs of "k1=v1&k2=v2...": a piece that is not key=value, or whose
\* value cannot be decoded, yields no key
RECURSIVE ParsePairs(_, _)
ParsePairs(t, acc) ==
    IF t = <<>> THEN acc
    ELSE LET piece == Before(t, "&")
             rest  == After(t, "&")
             ok    == /\ Len(piece) >= 2
                      /\ piece[1] \notin {"=", "#"}
                      /\ piece[2] = "="
                      /\ ~Malformed(SubSeq(piece, 3, Len(piece)))
         IN  ParsePairs(rest,
                        IF ok THEN Put(acc, piece[1], Dec(SubSeq(piece, 3, Len(piece))))
                        ELSE acc)

\* parseHash(hash): the key/value pairs of the fragment
ParseHash(hash) ==
    ParsePairs(IF hash # <<>> /\ Head(hash) = "#" THEN Tail(hash) ELSE hash, <<>>)

\* hash.key: the value, and whether the key is there
HasKey(pairs, k) == IndexOfKey(pairs, k) # 0

ValueOf(pairs, k) == pairs[IndexOfKey(pairs, k)].v

\* merge the fields of a record into the pairs: a defined field is written,
\* an undefined field is not written and its key is dropped
RECURSIVE Merge(_, _)
Merge(pairs, record) ==
    IF record = <<>> THEN pairs
    ELSE Merge(IF Head(record).def THEN Put(pairs, Head(record).k, Head(record).v)
               ELSE Remove(pairs, Head(record).k),
               Tail(record))

RECURSIVE JoinPairs(_)
JoinPairs(pairs) ==
    IF pairs = <<>> THEN <<>>
    ELSE <<Head(pairs).k, "=">> \o Enc(Head(pairs).v)
         \o (IF Len(pairs) > 1 THEN <<"&">> ELSE <<>>) \o JoinPairs(Tail(pairs))

\* createHash(location.hash, record), as location.hash reads after the
\* assignment ("" for an empty fragment)
CreateHash(hash, record) ==
    LET combined == Merge(ParseHash(hash), record)
    IN  IF combined = <<>> THEN <<>> ELSE <<"#">> \o JoinPairs(combined)

Defined(k, v) == [k |-> k, def |-> TRUE, v |-> v]

Undefined(k) == [k |-> k, def |-> FALSE, v |-> <<>>]

\* the fragment text of a list of key/value pairs
Text(pairs) == IF pairs = <<>> THEN <<>> ELSE <<"#">> \o JoinPairs(pairs)

KV(k, v) == <<[k |-> k, v |-> v]>>

\* one key, absent or with one of the values vs
Opt(k, vs) == {<<>>} \cup {KV(k, v) : v \in vs}

\* fragments a rendered page starts from: every tiles URL with every
\* published version, and three with other keys
PageFragments ==
    {Text(t \o n) : t \in Opt("tiles", TilesUrls \ {DEFAULT_TILES}),
                    n \in Opt("npm_version", NpmVersions \ {<<>>})}
    \cup {Text(KV("map", <<"2/0/0">>) \o KV("x", <<"1">>) \o KV("lang", <<"fr">>)
               \o KV("local_sprites", <<"true">>)),
          Text(KV("flavorName", <<"dark">>) \o KV("show_boxes", <<"true">>)
               \o KV("map", <<"2/0/0">>)),
          Text(KV("flavorName", <<"light">>) \o KV("lang", <<"en">>)
               \o KV("local_sprites", <<"false">>))}

\* fragments for a page load: every combination of the six fields, absent,
\* set, set to their default or set to the empty string, with and without
\* keys of other concerns
WellFormed ==
    {Text(x1 \o f \o l \o t \o s \o b \o n \o x2) :
        x1 \in Opt("map", {<<"2/0/0">>}),
        f \in Opt("flavorName", {<<"dark">>, <<"light">>, <<>>}),
        l \in Opt("lang", {<<"fr">>}),
        t \in Opt("tiles", {<<"a", ".pmtiles">>, QueryTiles, DEFAULT_TILES, <<>>}),
        s \in Opt("local_sprites", {<<"true">>, <<"false">>}),
        b \in Opt("show_boxes", {<<"true">>, <<"1">>}),
        n \in Opt("npm_version", {<<"2", ".", "0">>}),
        x2 \in Opt("x", {<<"1">>})}

\* fragments that are not key=value lists with decodable values
IllFormed ==
    {<<"#", "lang">>, <<"#", "=", "fr">>, <<"#", "lang", "=", "%">>,
     <<"#", "&", "&">>, <<"#", "tiles", "=", "a", ".pmtiles", "&", "tiles", "=", "%", "&",
       "lang", "=", "fr">>,
     <<"#", "flavorName", "=", "dark", "=", "x">>}

LoadFragments == WellFormed \cup IllFormed

\* (mutant) the record never carries the published version
HashRecordNoVersion(fName, lng, tls, sprites, boxes, version, dropped) ==
    <<Defined("flavorName", <<fName>>),
      Defined("lang", <<lng>>),
      IF dropped # NoHandle THEN Undefined("tiles")
      ELSE IF tls = DEFAULT_TILES THEN Undefined("tiles")
      ELSE Defined("tiles", tls),
      IF sprites THEN Defined("local_sprites", <<"true">>) ELSE Undefined("local_sprites"),
      IF boxes THEN Defined("show_boxes", <<"true">>) ELSE Undefined("show_boxes"),
      Undefined("npm_version")>>

\* (mutant) the tile URL is written to the record also beside a dropped archive
HashRecordKeepsTiles(fName, lng, tls, sprites, boxes, version, dropped) ==
    <<Defined("flavorName", <<fName>>),
      Defined("lang", <<lng>>),
      IF tls = DEFAULT_TILES THEN Undefined("tiles")
      ELSE Defined("tiles", tls),
      IF sprites THEN Defined("local_sprites", <<"true">>) ELSE Undefined("local_sprites"),
      IF boxes THEN Defined("show_boxes", <<"true">>) ELSE Undefined("show_boxes"),
      IF version # <<>> THEN Defined("npm_version", version) ELSE Undefined("npm_version")>>

\* the record of the hash effect, for given values of the signals it reads
HashRecord(fName, lng, tls, sprites, boxes, version, dropped) ==
    <<Defined("flavorName", <<fName>>),
      Defined("lang", <<lng>>),
      IF dropped # NoHandle THEN Undefined("tiles")
      ELSE IF tls = DEFAULT_TILES THEN Undefined("tiles")
      ELSE Defined("tiles", tls),
      IF sprites THEN Defined("local_sprites", <<"true">>) ELSE Undefined("local_sprites"),
      IF boxes THEN Defined("show_boxes", <<"true">>) ELSE Undefined("show_boxes"),
      IF version # <<>> THEN Defined("npm_version", version) ELSE Undefined("npm_version")>>

\* hash.key || fallback, for a key whose value is a name
NameOr(h, k, fallback) ==
    IF HasKey(h, k) /\ ValueOf(h, k) # <<>> THEN ValueOf(h, k)[1] ELSE fallback

\* (mutant) hash.tiles without a fallback
TilesOrRaw(h) ==
    IF HasKey(h, "tiles") THEN ValueOf(h, "tiles") ELSE <<>>

\* hash.tiles || DEFAULT_TILES
TilesOr(h) ==
    IF HasKey(h, "tiles") /\ ValueOf(h, "tiles") # <<>> THEN ValueOf(h, "tiles")
    ELSE DEFAULT_TILES

\* hash.key === "true"
IsTrue(h, k) == HasKey(h, k) /\ ValueOf(h, k) = <<"true">>

\* hash.npm_version (the undefined and the empty version are both <<>>)
VersionOf(h) == IF HasKey(h, "npm_version") THEN ValueOf(h, "npm_version") ELSE <<>>

\* MapView(): the signals are created from parseHash(location.hash)
MapInitFrom(F) ==
    /\ locHash = F
    /\ openedWith = F
    /\ phase = "constructed"
    /\ flavorName = NameOr(ParseHash(F), "flavorName", "light")
    /\ lang = NameOr(ParseHash(F), "lang", "en")
    /\ tiles = TilesOr(ParseHash(F))
    /\ localSprites = IsTrue(ParseHash(F), "local_sprites")
    /\ showBoxes = IsTrue(ParseHash(F), "show_boxes")
    /\ npmVersion = VersionOf(ParseHash(F))
    /\ droppedArchive = NoHandle
    /\ protocolTiles = [k \in Keys |-> NoHandle]
    /\ constructed = {}
    /\ infoCalls = <<>>
    /\ mismatch = <<>>
    /\ layerFetches = <<>>
    /\ npmLayers = <<>>
    /\ mapStyle = EmptyStyle
    /\ unhandled = {}
    /\ lastCheck = NoCheck
    /\ events = 0
    /\ timelinessInfo = <<>>
    /\ protocolRef = FALSE
    /\ pmtilesProtocol = FALSE
    /\ longPressTimeout = 0
    /\ pressTimers = {}
    /\ popup = "closed"
    /\ pressCancelled = {}
    /\ pressShown = {}

MapInit == \E F \in PageFragments : MapInitFrom(F)

\* (mutant) the fragment is built from the record alone
HashEffectFresh(fName, dropped) ==
    locHash' = CreateHash(<<>>, HashRecord(fName, lang, tiles, localSprites,
                                           showBoxes, npmVersion, dropped))

\* the hash effect: location.hash = createHash(location.hash, record)
HashEffect(fName, dropped) ==
    locHash' = CreateHash(locHash, HashRecord(fName, lang, tiles, localSprites,
                                              showBoxes, npmVersion, dropped))

\* new PMTiles(source): a fresh handle; its archive holds metadata meta
NewHandle(key, kind, meta) ==
    [id |-> Cardinality(constructed) + 1, key |-> key, kind |-> kind, meta |-> meta]

RemoveAt(seq, i) == SubSeq(seq, 1, i - 1) \o SubSeq(seq, i + 1, Len(seq))

\* (mutant) the URL branch opens the archive without asking the registry first
ArchiveInfoNoGet(caller, p, dropped, style, id, meta) ==
    LET call(kind, arch) ==
            <<[caller |-> caller, kind |-> kind, arch |-> arch, style |-> style]>>
    IN
    IF dropped = NoHandle /\ EndsWithJson(tiles)
    THEN [reg |-> protocolTiles, call |-> call("tilejson", NoHandle), made |-> {}]
    ELSE IF p
    THEN IF dropped # NoHandle
         THEN [reg  |-> [protocolTiles EXCEPT ![dropped.key] = dropped],
               call |-> call("archive", dropped), made |-> {}]
         ELSE LET archive == [id |-> id, key |-> tiles, kind |-> "remote", meta |-> meta]
              IN  [reg  |-> [protocolTiles EXCEPT ![tiles] = archive],
                   call |-> call("archive", archive), made |-> {archive}]
    ELSE [reg |-> protocolTiles, call |-> <<>>, made |-> {}]

\* (mutant) a dropped archive is deduplicated against the key already registered
ArchiveInfoDedupDropped(caller, p, dropped, style, id, meta) ==
    LET call(kind, arch) ==
            <<[caller |-> caller, kind |-> kind, arch |-> arch, style |-> style]>>
    IN
    IF dropped = NoHandle /\ EndsWithJson(tiles)
    THEN [reg |-> protocolTiles, call |-> call("tilejson", NoHandle), made |-> {}]
    ELSE IF p
    THEN IF dropped # NoHandle
         THEN IF protocolTiles[dropped.key] # NoHandle
              THEN [reg |-> protocolTiles,
                    call |-> call("archive", protocolTiles[dropped.key]), made |-> {}]
              ELSE [reg  |-> [protocolTiles EXCEPT ![dropped.key] = dropped],
                    call |-> call("archive", dropped), made |-> {}]
         ELSE IF protocolTiles[tiles] # NoHandle
         THEN [reg |-> protocolTiles, call |-> call("archive", protocolTiles[tiles]), made |-> {}]
         ELSE LET archive == [id |-> id, key |-> tiles, kind |-> "remote", meta |-> meta]
              IN  [reg  |-> [protocolTiles EXCEPT ![tiles] = archive],
                   call |-> call("archive", archive), made |-> {archive}]
    ELSE [reg |-> protocolTiles, call |-> <<>>, made |-> {}]

\* (mutant) a handle opened for a URL is awaited before it is registered
ArchiveInfoAwaitUnregistered(caller, p, dropped, style, id, meta) ==
    LET call(kind, arch) ==
            <<[caller |-> caller, kind |-> kind, arch |-> arch, style |-> style]>>
    IN
    IF dropped = NoHandle /\ EndsWithJson(tiles)
    THEN [reg |-> protocolTiles, call |-> call("tilejson", NoHandle), made |-> {}]
    ELSE IF p
    THEN IF dropped # NoHandle
         THEN [reg  |-> [protocolTiles EXCEPT ![dropped.key] = dropped],
               call |-> call("archive", dropped), made |-> {}]
         ELSE IF protocolTiles[tiles] # NoHandle
         THEN [reg |-> protocolTiles, call |-> call("archive", protocolTiles[tiles]), made |-> {}]
         ELSE LET archive == [id |-> id, key |-> tiles, kind |-> "remote", meta |-> meta]
              IN  [reg  |-> protocolTiles,
                   call |-> call("archive", archive), made |-> {archive}]
    ELSE [reg |-> protocolTiles, call |-> <<>>, made |-> {}]

\* archiveInfo() up to its first await.  p: protocolRef() is set; dropped:
\* props.droppedArchive; style: the caller's styleMajorVersion; id, meta: the
\* identity and content of an archive opened here.  Yields the registry, the
\* suspended call (if any) and the handle constructed (if any).
ArchiveInfo(caller, p, dropped, style, id, meta) ==
    LET call(kind, arch) ==
            <<[caller |-> caller, kind |-> kind, arch |-> arch, style |-> style]>>
    IN
    IF dropped = NoHandle /\ EndsWithJson(tiles)
    THEN [reg |-> protocolTiles, call |-> call("tilejson", NoHandle), made |-> {}]
    ELSE IF p
    THEN IF dropped # NoHandle
         THEN [reg  |-> [protocolTiles EXCEPT ![dropped.key] = dropped],
               call |-> call("archive", dropped), made |-> {}]
         ELSE IF protocolTiles[tiles] # NoHandle
         THEN [reg |-> protocolTiles, call |-> call("archive", protocolTiles[tiles]), made |-> {}]
         ELSE LET archive == [id |-> id, key |-> tiles, kind |-> "remote", meta |-> meta]
              IN  [reg  |-> [protocolTiles EXCEPT ![tiles] = archive],
                   call |-> call("archive", archive), made |-> {archive}]
    ELSE [reg |-> protocolTiles, call |-> <<>>, made |-> {}]

\* the state change of an archiveInfo() call made by caller
CallArchiveInfo(caller, p, dropped, made) ==
    \E meta \in Metas :
        LET r == ArchiveInfo(caller, p, dropped,
                             StyleMajorVersion(npmVersion),
                             Cardinality(constructed \cup made) + 1, meta)
        IN  /\ protocolTiles' = r.reg
            /\ infoCalls' = infoCalls \o r.call
            /\ constructed' = constructed \cup made \cup r.made

\* the npmLayers effect: clears the override or starts a layer-set fetch
NpmLayersEffect(fName) ==
    IF npmVersion = <<>>
    THEN /\ npmLayers' = <<>>
         /\ layerFetches' = layerFetches
    ELSE /\ layerFetches' = Append(layerFetches, [version |-> npmVersion, flavor |-> fName])
         /\ npmLayers' = npmLayers

\* render(): the effects of MapView and MapLibreView run once, in creation
\* order: hash effect, npmLayers effect, onMount (protocol, map), compatibility effect
\* (archiveInfo), setStyle effect
Mount ==
    /\ UNCHANGED notMap
    /\ UNCHANGED pressVars
    /\ UNCHANGED timelinessInfo
    /\ phase = "constructed"
    /\ phase' = "mounted"
    /\ HashEffect(flavorName, droppedArchive)
    /\ NpmLayersEffect(flavorName)
    /\ protocolRef' = TRUE
    /\ pmtilesProtocol' = TRUE
    /\ CallArchiveInfo("effect", protocolRef', droppedArchive, {})
    /\ mapStyle' = MemoizedStyle(flavorName, npmLayers', droppedArchive)
    /\ UNCHANGED <<tiles, npmVersion, lang, localSprites, showBoxes, openedWith, flavorName,
                   droppedArchive, mismatch, unhandled, lastCheck, events>>

\* drop: setDroppedArchive(new PMTiles(new FileSource(file))); the
\* compatibility effect re-runs archiveInfo, then the setStyle effect runs
Drop(name, meta) ==
    /\ UNCHANGED notMap
    /\ UNCHANGED pressVars
    /\ UNCHANGED <<protocolRef, pmtilesProtocol>>
    /\ UNCHANGED timelinessInfo
    /\ phase = "mounted"
    /\ events < MaxEvents
    /\ events' = events + 1
    /\ LET archive == NewHandle(name, "file", meta)
       IN  /\ droppedArchive' = archive
           /\ HashEffect(flavorName, archive)
           /\ CallArchiveInfo("effect", protocolRef, archive, {archive})
           /\ mapStyle' = MemoizedStyle(flavorName, npmLayers, archive)
    /\ UNCHANGED <<phase, tiles, npmVersion, lang, localSprites, showBoxes, openedWith, flavorName, mismatch, layerFetches,
                   npmLayers, unhandled, lastCheck>>

\* handleKeyPress: charCode 49..53 sets the flavor; the npmLayers effect
\* re-runs if it read flavorName (a version is selected), then setStyle
KeyPress(c) ==
    /\ UNCHANGED notMap
    /\ UNCHANGED pressVars
    /\ UNCHANGED <<protocolRef, pmtilesProtocol>>
    /\ UNCHANGED timelinessInfo
    /\ phase = "mounted"
    /\ events < MaxEvents
    /\ events' = events + 1
    /\ IF c >= 49 /\ c <= 53 /\ KeyFlavors[c - 49 + 1] # flavorName
       THEN LET name == KeyFlavors[c - 49 + 1]
            IN  /\ flavorName' = name
                /\ HashEffect(name, droppedArchive)
                /\ IF npmVersion # <<>> THEN NpmLayersEffect(name)
                   ELSE UNCHANGED <<npmLayers, layerFetches>>
                /\ mapStyle' = MemoizedStyle(name, npmLayers', droppedArchive)
       ELSE UNCHANGED <<flavorName, npmLayers, layerFetches, mapStyle, locHash>>
    /\ UNCHANGED <<phase, tiles, npmVersion, lang, localSprites, showBoxes, openedWith, droppedArchive, protocolTiles, constructed,
                   infoCalls, mismatch, unhandled, lastCheck>>

\* map "idle": setError(undefined); archiveInfo().then(...), whose callback
\* (the timeliness text) runs in InfoReturn
Idle ==
    /\ UNCHANGED notMap
    /\ UNCHANGED pressVars
    /\ UNCHANGED <<protocolRef, pmtilesProtocol>>
    /\ UNCHANGED timelinessInfo
    /\ UNCHANGED locHash
    /\ phase \in {"mounted", "disposed"}
    /\ events < MaxEvents
    /\ events' = events + 1
    /\ CallArchiveInfo("idle", protocolRef, droppedArchive, {})
    /\ UNCHANGED <<phase, tiles, npmVersion, lang, localSprites, showBoxes, openedWith, flavorName, droppedArchive, mismatch,
                   layerFetches, npmLayers, mapStyle, unhandled, lastCheck>>

\* the map requests a tile of its source through the registered protocol:
\* protocol.tile looks the key up and opens the URL if the key is unknown
TileLookup(meta) ==
    /\ UNCHANGED notMap
    /\ UNCHANGED pressVars
    /\ UNCHANGED <<protocolRef, pmtilesProtocol>>
    /\ UNCHANGED timelinessInfo
    /\ UNCHANGED locHash
    /\ phase \in {"mounted", "disposed"}
    /\ events < MaxEvents
    /\ pmtilesProtocol
    /\ mapStyle.sources # <<>>
    /\ Head(mapStyle.sources[1].url) = "pmtiles://"
    /\ events' = events + 1
    /\ LET key == Tail(mapStyle.sources[1].url)
       IN  IF protocolTiles[key] # NoHandle
           THEN UNCHANGED <<protocolTiles, constructed>>
           ELSE LET archive == NewHandle(key, "remote", meta)
                IN  /\ protocolTiles' = [protocolTiles EXCEPT ![key] = archive]
                    /\ constructed' = constructed \cup {archive}
    /\ UNCHANGED <<phase, tiles, npmVersion, lang, localSprites, showBoxes, openedWith, flavorName, droppedArchive, infoCalls,
                   mismatch, layerFetches, npmLayers, mapStyle, unhandled, lastCheck>>

\* (mutant) the comparison of indexOf's result is off by one
CompatCheckOffByOne(styleMajorVersion, metadata, current) ==
    IF metadata.has
    THEN LET tilesetVersion == MajorOf(metadata.version)
         IN  IF tilesetVersion \notin DOMAIN VERSION_COMPATIBILITY
             THEN [mismatch |-> current, threw |-> TRUE]
             ELSE IF IndexOf(VERSION_COMPATIBILITY[tilesetVersion], styleMajorVersion) <= 0
             THEN [mismatch |-> <<styleMajorVersion, tilesetVersion>>, threw |-> FALSE]
             ELSE [mismatch |-> <<>>, threw |-> FALSE]
    ELSE [mismatch |-> current, threw |-> FALSE]

\* the callback of the compatibility effect, given the resolved metadata:
\* the new mismatch text and whether the callback threw (indexing the table
\* with an absent key yields undefined, and undefined.indexOf throws)
CompatCheck(styleMajorVersion, metadata, current) ==
    IF metadata.has
    THEN LET tilesetVersion == MajorOf(metadata.version)
         IN  IF tilesetVersion \notin DOMAIN VERSION_COMPATIBILITY
             THEN [mismatch |-> current, threw |-> TRUE]
             ELSE IF IndexOf(VERSION_COMPATIBILITY[tilesetVersion], styleMajorVersion) < 0
             THEN [mismatch |-> <<styleMajorVersion, tilesetVersion>>, threw |-> FALSE]
             ELSE [mismatch |-> <<>>, threw |-> FALSE]
    ELSE [mismatch |-> current, threw |-> FALSE]

\* the values of the field planetiler:osm:osmosisreplicationtime of a metadata
\* document, as <<first ten characters, rest>> (<<>>: the field is absent)
Times == {<<>>, <<"2024-05-01", "T00:00:00Z">>}

\* s.substr(0, 10)
Substr10(s) == IF s = <<>> THEN <<>> ELSE <<Head(s)>>

\* a template literal's text for a value (an undefined one reads "undefined")
Interpolate(present, text) == IF present THEN text ELSE <<"undefined">>

\* the text the idle callback builds from a metadata document:
\* `tiles@${m.version} ${m[...]?.substr(0, 10)}`
TimelinessText(metadata, time) ==
    <<"tiles@">> \o Interpolate(metadata.has, metadata.version) \o <<" ">>
        \o Interpolate(time # <<>>, Substr10(time))

\* the awaits of a suspended archiveInfo() have resolved (getMetadata() and
\* getHeader(), or fetch() and resp.json() yielding a document with metadata
\* meta and provenance timestamp time): archiveInfo returns and its caller's
\* callback runs.  Nothing is written between the two awaits, so they are one
\* step.
InfoReturn(i, meta, time) ==
    /\ UNCHANGED notMap
    /\ UNCHANGED pressVars
    /\ UNCHANGED <<protocolRef, pmtilesProtocol>>
    /\ UNCHANGED locHash
    /\ i \in 1..Len(infoCalls)
    /\ infoCalls[i].kind = "archive" => meta = infoCalls[i].arch.meta
    /\ infoCalls' = RemoveAt(infoCalls, i)
    /\ IF infoCalls[i].caller = "effect"
       THEN LET r == CompatCheck(infoCalls[i].style, meta, mismatch)
            IN  /\ mismatch' = r.mismatch
                /\ unhandled' = IF r.threw THEN unhandled \cup {"TypeError"} ELSE unhandled
                /\ lastCheck' = [ran |-> TRUE, style |-> infoCalls[i].style, meta |-> meta]
                /\ UNCHANGED timelinessInfo
       ELSE /\ timelinessInfo' = TimelinessText(meta, time)
            /\ UNCHANGED <<mismatch, unhandled, lastCheck>>
    /\ UNCHANGED <<phase, tiles, npmVersion, lang, localSprites, showBoxes, openedWith, flavorName, droppedArchive, protocolTiles,
                   constructed, layerFetches, npmLayers, mapStyle, events>>

\* an await of a suspended archiveInfo() rejects: no caller catches it
InfoFail(i) ==
    /\ UNCHANGED notMap
    /\ UNCHANGED pressVars
    /\ UNCHANGED <<protocolRef, pmtilesProtocol>>
    /\ UNCHANGED timelinessInfo
    /\ UNCHANGED locHash
    /\ i \in 1..Len(infoCalls)
    /\ infoCalls' = RemoveAt(infoCalls, i)
    /\ unhandled' = unhandled \cup {"rejected"}
    /\ UNCHANGED <<phase, tiles, npmVersion, lang, localSprites, showBoxes, openedWith, flavorName, droppedArchive, protocolTiles,
                   constructed, mismatch, layerFetches, npmLayers, mapStyle, lastCheck, events>>

\* a layersForVersion fetch resolves: setNpmLayers(result), then the setStyle
\* effect (which no longer runs once the component is disposed)
LayersResolve(i) ==
    /\ UNCHANGED notMap
    /\ UNCHANGED pressVars
    /\ UNCHANGED <<protocolRef, pmtilesProtocol>>
    /\ UNCHANGED timelinessInfo
    /\ UNCHANGED locHash
    /\ i \in 1..Len(layerFetches)
    /\ layerFetches' = RemoveAt(layerFetches, i)
    /\ npmLayers' = LayersForVersion(layerFetches[i].version, layerFetches[i].flavor)
    /\ mapStyle' = IF phase = "mounted"
                   THEN MemoizedStyle(flavorName, npmLayers', droppedArchive)
                   ELSE mapStyle
    /\ UNCHANGED <<phase, tiles, npmVersion, lang, localSprites, showBoxes, openedWith, flavorName, droppedArchive, protocolTiles,
                   constructed, infoCalls, mismatch, unhandled, lastCheck, events>>

\* a layersForVersion fetch rejects inside the effect's async function
LayersFail(i) ==
    /\ UNCHANGED notMap
    /\ UNCHANGED pressVars
    /\ UNCHANGED <<protocolRef, pmtilesProtocol>>
    /\ UNCHANGED timelinessInfo
    /\ UNCHANGED locHash
    /\ i \in 1..Len(layerFetches)
    /\ layerFetches' = RemoveAt(layerFetches, i)
    /\ unhandled' = unhandled \cup {"layers rejected"}
    /\ UNCHANGED <<phase, tiles, npmVersion, lang, localSprites, showBoxes, openedWith, flavorName, droppedArchive, protocolTiles,
                   constructed, infoCalls, mismatch, npmLayers, mapStyle, lastCheck, events>>

\* the camera of the map, as the map writes it
Cameras == {<<"3/1/1">>}

\* the pieces of a fragment body between its "&"
RECURSIVE Pieces(_)
Pieces(t) ==
    IF ~HasSep(t, "&") THEN <<t>>
    ELSE <<Before(t, "&")>> \o Pieces(After(t, "&"))

RECURSIVE JoinPieces(_)
JoinPieces(ps) ==
    IF ps = <<>> THEN <<>>
    ELSE Head(ps) \o (IF Len(ps) > 1 THEN <<"&">> ELSE <<>>) \o JoinPieces(Tail(ps))

IsMapPiece(piece) == Len(piece) >= 2 /\ piece[1] = "map" /\ piece[2] = "="

\* the map's hash option: the piece map=... is replaced where it stands, or
\* added at the end; the other pieces are kept as they are
SetMapKey(hash, cam) ==
    LET body == IF hash # <<>> /\ Head(hash) = "#" THEN Tail(hash) ELSE hash
        ps   == IF body = <<>> THEN <<>> ELSE Pieces(body)
        new  == <<"map", "=">> \o cam
    IN  <<"#">> \o JoinPieces(
            IF \E i \in 1..Len(ps) : IsMapPiece(ps[i])
            THEN [i \in 1..Len(ps) |-> IF IsMapPiece(ps[i]) THEN new ELSE ps[i]]
            ELSE Append(ps, new))

\* clearLongPress: clearTimeout(longPressTimeout), on an event that cancels a
\* long press; the timers pending at the event are noted as cancelled
ClearLongPress ==
    /\ pressTimers' = pressTimers \ {longPressTimeout}
    /\ pressCancelled' = pressCancelled \cup pressTimers
    /\ UNCHANGED <<longPressTimeout, popup, pressShown>>

\* the map has moved: it writes its camera under the key "map", and
\* "moveend" runs clearLongPress
MapMove(cam) ==
    /\ UNCHANGED notMap
    /\ ClearLongPress
    /\ UNCHANGED <<protocolRef, pmtilesProtocol>>
    /\ UNCHANGED timelinessInfo
    /\ phase \in {"mounted", "disposed"}
    /\ events < MaxEvents
    /\ events' = events + 1
    /\ locHash' = SetMapKey(locHash, cam)
    /\ UNCHANGED <<phase, tiles, npmVersion, lang, localSprites, showBoxes, openedWith, flavorName,
                   droppedArchive, protocolTiles, constructed, infoCalls, mismatch,
                   layerFetches, npmLayers, mapStyle, unhandled, lastCheck>>

\* the component is disposed.  The function onMount's callback returns
\* (setProtocolRef(undefined); removeProtocol("pmtiles"); map.remove()) is not
\* registered as a cleanup and does not run: the effects stop, and the protocol,
\* its registry and the map stay as they are.
Unmount ==
    /\ UNCHANGED notMap
    /\ phase = "mounted"
    /\ events < MaxEvents
    /\ events' = events + 1
    /\ phase' = "disposed"
    /\ UNCHANGED <<tiles, npmVersion, flavorName, droppedArchive, protocolTiles,
                   constructed, infoCalls, mismatch, layerFetches, npmLayers,
                   mapStyle, unhandled, lastCheck, locHash, lang, localSprites,
                   showBoxes, openedWith, timelinessInfo, protocolRef, pmtilesProtocol>>
    /\ UNCHANGED pressVars

\* the map events other than "moveend" that run clearLongPress
CancelEvents == {"touchend", "touchcancel", "touchmove", "pointerdrag", "pointermove",
                 "gesturestart", "gesturechange", "gestureend"}

\* what a press of the map leaves alone
notPress == <<phase, tiles, npmVersion, flavorName, droppedArchive, protocolTiles,
              constructed, infoCalls, mismatch, layerFetches, npmLayers,
              mapStyle, unhandled, lastCheck, events, locHash, lang, localSprites,
              showBoxes, openedWith, timelinessInfo, protocolRef, pmtilesProtocol>>

\* map "touchstart": longPressTimeout = setTimeout(..., 500); a timer armed
\* before is not cleared
TouchStart ==
    /\ UNCHANGED notMap
    /\ UNCHANGED notPress
    /\ phase # "constructed"
    /\ longPressTimeout < MaxTouches
    /\ longPressTimeout' = longPressTimeout + 1
    /\ pressTimers' = pressTimers \cup {longPressTimeout + 1}
    /\ UNCHANGED <<popup, pressCancelled, pressShown>>

\* a map event that cancels a long press
CancelPress(kind) ==
    /\ UNCHANGED notMap
    /\ UNCHANGED notPress
    /\ phase # "constructed"
    /\ kind \in CancelEvents
    /\ ClearLongPress

\* showContextMenu: the popup opens on the features under the point, or is
\* removed where there are none
ShowContextMenu(hasFeatures) == IF hasFeatures THEN "open" ELSE "closed"

\* 500 ms have passed since touchstart armed timer id: its callback runs
LongPress(id, hasFeatures) ==
    /\ UNCHANGED notMap
    /\ UNCHANGED notPress
    /\ id \in pressTimers
    /\ \A j \in pressTimers : id <= j
    /\ pressTimers' = pressTimers \ {id}
    /\ pressShown' = pressShown \cup {id}
    /\ popup' = ShowContextMenu(hasFeatures)
    /\ UNCHANGED <<longPressTimeout, pressCancelled>>

\* map "contextmenu"
ContextMenu(hasFeatures) ==
    /\ UNCHANGED notMap
    /\ UNCHANGED notPress
    /\ phase # "constructed"
    /\ popup' = ShowContextMenu(hasFeatures)
    /\ UNCHANGED <<longPressTimeout, pressTimers, pressCancelled, pressShown>>

\* presses of the map, after it is rendered
PressNext ==
    \/ Mount
    \/ TouchStart
    \/ \E kind \in CancelEvents : CancelPress(kind)
    \/ \E cam \in Cameras : MapMove(cam)
    \/ \E id \in pressTimers, hasFeatures \in BOOLEAN : LongPress(id, hasFeatures)
    \/ \E hasFeatures \in BOOLEAN : ContextMenu(hasFeatures)

MapNext ==
    \/ Mount
    \/ Unmount
    \/ \E cam \in Cameras : MapMove(cam)
    \/ \E name \in FileNames, meta \in Metas : Drop(name, meta)
    \/ \E c \in KeyCodes : KeyPress(c)
    \/ Idle
    \/ \E meta \in Metas : TileLookup(meta)
    \/ \E i \in 1..Len(infoCalls), meta \in Metas, time \in Times : InfoReturn(i, meta, time)
    \/ \E i \in 1..Len(infoCalls) : InfoFail(i)
    \/ \E i \in 1..Len(layerFetches) : LayersResolve(i)
    \/ \E i \in 1..Len(layerFetches) : LayersFail(i)

(***************************************************************************)
(* getMaplibreStyle over its arguments                                     *)
(***************************************************************************)

Langs == {"en", "fr"}

FlavorNames == {"light", "dark"}

\* a dropped archive, as an argument
DroppedArgs == {NoHandle, [id |-> 1, key |-> <<"b", ".pmtiles">>, kind |-> "file",
                           meta |-> [has |-> FALSE, version |-> <<>>]]}

\* npmLayers values: none, a published set, and a set in an order of its own
LayerArgs ==
    {<<>>, LayersForVersion(<<"2", ".", "0">>, "dark"),
     <<[id |-> "roads", flavor |-> "custom", lang |-> "en", version |-> <<"3", ".", "2">>],
       [id |-> "land", flavor |-> "custom", lang |-> "en", version |-> <<"3", ".", "2">>]>>}

\* the arguments of a call: tiles and flavor may be undefined (<<>>)
StyleArgs ==
    [lang : Langs, localSprites : BOOLEAN, flavorName : FlavorNames,
     hasFlavor : BOOLEAN, tiles : {<<>>} \cup TilesUrls, npmLayers : LayerArgs,
     droppedArchive : DroppedArgs]

FlavorArg(a) == IF a.hasFlavor THEN NamedFlavor(a.flavorName) ELSE <<>>

StyleInit ==
    /\ cArgs \in StyleArgs
    /\ cOp = "none"
    /\ cOut = EmptyStyle

\* memoizedStyle: getMaplibreStyle with all seven arguments
Compose ==
    /\ UNCHANGED notStyle
    /\ cOp' = "compose"
    /\ cOut' = GetMaplibreStyle(cArgs.lang, cArgs.localSprites, cArgs.flavorName,
                                FlavorArg(cArgs), cArgs.tiles, cArgs.npmLayers,
                                cArgs.droppedArchive)
    /\ UNCHANGED cArgs

\* new MaplibreMap({style: getMaplibreStyle("en", false, flavorName, flavor)})
MountStyle ==
    /\ UNCHANGED notStyle
    /\ cOp' = "mount"
    /\ cOut' = GetMaplibreStyle("en", FALSE, cArgs.flavorName, FlavorArg(cArgs),
                                <<>>, <<>>, NoHandle)
    /\ UNCHANGED cArgs

StyleNext ==
    \/ Compose
    \/ MountStyle

(***************************************************************************)
(* Feature ids.  A BigInt is the set of the positions of its one bits      *)
(* (position 0 is the lowest): the values do not fit the integers of TLC.  *)
(***************************************************************************)

\* the width of a feature id of a vector tile
IdWidth == 64

Positions == 0..(IdWidth - 1)

\* the number of low bits of a feature id that hold the id within its kind
OsmIdBits == 44

\* the bits of a double's significand
SignificandBits == 53

Min(s) == CHOOSE x \in s : \A y \in s : x <= y

Max(s) == CHOOSE x \in s : \A y \in s : x >= y

\* BigInt(k) of a small number k
RECURSIVE Pow2(_)
Pow2(n) == IF n = 0 THEN 1 ELSE 2 * Pow2(n - 1)

SmallBigInt(k) == {i \in 0..10 : (k \div Pow2(i)) % 2 = 1}

\* a + b: bit i of the sum is a_i xor b_i xor the carry into i, and a carry
\* enters i when some lower position generates one that every position
\* between passes on
BigAdd(a, b) ==
    LET top == Max(a \cup b \cup {0}) + 1
        Carry(i) == \E j \in 0..(i - 1) :
                        /\ j \in a /\ j \in b
                        /\ \A k \in (j + 1)..(i - 1) : k \in a \/ k \in b
    IN  {i \in 0..top : ((i \in a) # (i \in b)) # Carry(i)}

\* a - b, for a >= b: likewise with the borrow into i
BigSub(a, b) ==
    LET top == Max(a \cup b \cup {0})
        Borrow(i) == \E j \in 0..(i - 1) :
                         /\ j \notin a /\ j \in b
                         /\ \A k \in (j + 1)..(i - 1) : k \notin a \/ k \in b
    IN  {i \in 0..top : ((i \in a) # (i \in b)) # Borrow(i)}

\* a << n and a >> n
ShiftLeft(a, n) == {i + n : i \in a}

ShiftRight(a, n) == {i - n : i \in {j \in a : j >= n}}

\* a & b
BitAnd(a, b) == a \cap b

\* BigInt(s) of a string of decimal digits: ten times the value of all but
\* the last digit (8 times plus 2 times; nothing to add to where that is 0),
\* plus the last digit
RECURSIVE ParseDecimal(_)
ParseDecimal(s) ==
    IF s = <<>> THEN {}
    ELSE LET acc == ParseDecimal(SubSeq(s, 1, Len(s) - 1))
             d   == SmallBigInt(DigitVal(s[Len(s)]))
         IN  IF acc = {} THEN d
             ELSE BigAdd(BigAdd(ShiftLeft(acc, 3), ShiftLeft(acc, 1)), d)

\* BigInt(raw) of a feature id: a number converts to its exact value, a
\* string is parsed
BigInt(raw) ==
    IF raw.form = "string" THEN ParseDecimal(raw.text) ELSE raw.bits

\* Number(a): the double nearest to a (ties to even); exact below 2^53
NumberOf(a) ==
    IF a = {} \/ Max(a) < SignificandBits THEN a
    ELSE LET d    == Max(a) - SignificandBits + 1
             kept == {i \in a : i >= d}
             up   == (d - 1) \in a /\ (d \in a \/ \E i \in a : i < d - 1)
         IN  IF up THEN BigAdd(kept, {d}) ELSE kept

\* featureIdToOsmId
FeatureIdToOsmId(raw) ==
    NumberOf(BitAnd(BigInt(raw),
                    BigSub(ShiftLeft(SmallBigInt(1), OsmIdBits), SmallBigInt(1))))

\* (mutant) three bits of tag are read
FeatureIdToOsmTypeWide(i) ==
    LET t == BitAnd(ShiftRight(BigInt(i), OsmIdBits), SmallBigInt(7))
    IN  IF t = SmallBigInt(1) THEN "node"
        ELSE IF t = SmallBigInt(2) THEN "way"
        ELSE IF t = SmallBigInt(3) THEN "relation"
        ELSE "not_osm"

\* featureIdToOsmType
FeatureIdToOsmType(i) ==
    LET t == BitAnd(ShiftRight(BigInt(i), OsmIdBits), SmallBigInt(3))
    IN  IF t = SmallBigInt(1) THEN "node"
        ELSE IF t = SmallBigInt(2) THEN "way"
        ELSE IF t = SmallBigInt(3) THEN "relation"
        ELSE "not_osm"

\* if (featureId): undefined, the number 0 and the empty string are falsy
Truthy(featureId) ==
    \/ featureId.form = "string" /\ featureId.text # <<>>
    \/ featureId.form = "number" /\ featureId.bits # {}

\* displayId: a link to the element, or the feature id as it is
DisplayId(featureId) ==
    IF Truthy(featureId) /\ FeatureIdToOsmType(featureId) # "not_osm"
    THEN [link |-> TRUE, osmType |-> FeatureIdToOsmType(featureId),
          osmId |-> FeatureIdToOsmId(featureId)]
    ELSE [link |-> FALSE, osmType |-> "none", osmId |-> {}]

\* bit positions that vary among the numeric feature ids
FreeBits == {0, 1, OsmIdBits - 1, OsmIdBits, OsmIdBits + 1, OsmIdBits + 2,
             SignificandBits - 1, IdWidth - 1}

\* a number of JavaScript holds an integer exactly when its one bits span no
\* more than the significand
IsDouble(a) == a = {} \/ Max(a) - Min(a) < SignificandBits

\* feature ids given as decimal strings
IdTexts ==
    {<<"0">>,
     <<"1", "7", "5", "9", "2", "1", "8", "6", "0", "4", "4", "4", "2", "1">>,
     <<"3", "5", "1", "8", "4", "3", "7", "2", "0", "8", "8", "8", "3", "9">>,
     <<"7", "0", "3", "6", "8", "7", "4", "4", "1", "7", "7", "6", "6", "3">>,
     <<"7", "0", "3", "6", "8", "7", "4", "4", "1", "7", "7", "6", "6", "5">>,
     <<"9", "2", "2", "3", "3", "8", "9", "6", "2", "9", "0", "4", "0", "8", "2",
       "0", "2", "2", "5">>,
     <<"1", "8", "4", "4", "6", "7", "4", "4", "0", "7", "3", "7", "0", "9", "5",
       "5", "1", "6", "1", "5">>}

NoId == [form |-> "undefined", bits |-> {}, text |-> <<>>]

FeatureIds ==
    {NoId}
    \cup {[form |-> "number", bits |-> a, text |-> <<>>] :
              a \in {b \in SUBSET FreeBits : IsDouble(b)}}
    \cup {[form |-> "string", bits |-> {}, text |-> t] : t \in IdTexts}

NoDecoding == [osmType |-> "none", osmId |-> {}]

NoDisplay == [link |-> FALSE, osmType |-> "none", osmId |-> {}]

IdInit ==
    /\ fId \in FeatureIds
    /\ fOp = "none"
    /\ fDecoded = NoDecoding
    /\ fShown = NoDisplay

\* featureIdToOsmType and featureIdToOsmId applied to a feature id
Decode ==
    /\ UNCHANGED notId
    /\ fId # NoId
    /\ fOp' = "decode"
    /\ fDecoded' = [osmType |-> FeatureIdToOsmType(fId), osmId |-> FeatureIdToOsmId(fId)]
    /\ UNCHANGED <<fId, fShown>>

\* displayId applied to the id of a feature
Display ==
    /\ UNCHANGED notId
    /\ fOp' = "display"
    /\ fShown' = DisplayId(fId)
    /\ UNCHANGED <<fId, fDecoded>>

IdNext ==
    \/ Decode
    \/ Display

(***************************************************************************)
(* Specifications                                                          *)
(***************************************************************************)

\* a TileConfig constructed on localhost and left alone
CfgIdle ==
    /\ hostname = "localhost"
    /\ pathname = <<"", "">>
    /\ isLocalhost = DetectLocalhost(hostname)
    /\ isGitHubPages = DetectGitHubPages(hostname)
    /\ githubPmtiles = DetectGithubPmtiles(hostname, pathname)
    /\ currentEndpoint = Null
    /\ selCalls = {}
    /\ timers = {}
    /\ probes = 0
    /\ nStarted = 0
    /\ nResolved = 0
    /\ lastReturn = Null
    /\ lastOutcome = "none"
    /\ out = <<"none">>
    /\ outOp = "none"
    /\ outAt = Null

\* a page with an empty fragment, not rendered
MapIdle == MapInitFrom(<<>>)

\* no call of getMaplibreStyle on its own
StyleIdle ==
    /\ cArgs = [lang |-> "en", localSprites |-> FALSE, flavorName |-> "light",
                hasFlavor |-> TRUE, tiles |-> <<>>, npmLayers |-> <<>>,
                droppedArchive |-> NoHandle]
    /\ cOp = "none"
    /\ cOut = EmptyStyle

\* no feature id decoded
IdIdle ==
    /\ fId = NoId
    /\ fOp = "none"
    /\ fDecoded = NoDecoding
    /\ fShown = NoDisplay

\* a rendered map viewer beside an unused TileConfig
Init == MapInit /\ CfgIdle /\ StyleIdle /\ IdIdle

\* a TileConfig in use beside a map viewer that is not rendered
CfgStart == CfgInit /\ MapIdle /\ StyleIdle /\ IdIdle

\* a page about to be rendered, for every fragment it can be opened with
LoadStart == (\E F \in LoadFragments : MapInitFrom(F)) /\ CfgIdle /\ StyleIdle /\ IdIdle

\* a page load
LoadSpec == LoadStart /\ [][Mount]_vars

\* calls of getMaplibreStyle, nothing else running
StyleStart == StyleInit /\ CfgIdle /\ MapIdle /\ IdIdle

\* style composition
StyleSpec == StyleStart /\ [][StyleNext]_vars

\* feature ids being decoded, nothing else running
IdStart == IdInit /\ CfgIdle /\ MapIdle /\ StyleIdle

\* the decoding of feature ids
IdSpec == IdStart /\ [][IdNext]_vars

\* presses of the map of a page opened with an empty fragment
PressStart == MapIdle /\ CfgIdle /\ StyleIdle /\ IdIdle

\* the long press
PressSpec == PressStart /\ [][PressNext]_vars

\* the map viewer
Spec == Init /\ [][MapNext]_vars

\* the endpoint configuration
CfgSpec == CfgStart /\ [][CfgNext]_vars

\* the endpoint configuration on an event loop that runs every armed timer
\* and every continuation of a settled promise; whether the health endpoint
\* ever answers is left open
CfgFair ==
    /\ CfgSpec
    /\ \A i \in 1..MaxSelect :
          /\ WF_vars(TimerFire(i))
          /\ WF_vars(\E c \in selCalls : c.id = i /\ SelectResume(c))

(***************************************************************************)
(* Properties of the archive registry                                      *)
(***************************************************************************)

\* C1: registry dedup.  At most one remote handle is ever opened for a key;
\* every registered handle is registered under its own key; a suspended
\* archiveInfo call on a URL key holds the handle registered for that key;
\* and a step that drops no new file leaves every registered handle in place
\* (a second request returns the first request's handle, registering nothing).
RegistryDedupState ==
    /\ \A h1, h2 \in constructed :
          (h1.kind = "remote" /\ h2.kind = "remote" /\ h1.key = h2.key) => h1 = h2
    /\ \A k \in Keys :
          protocolTiles[k] # NoHandle =>
              protocolTiles[k].key = k /\ protocolTiles[k] \in constructed
    /\ \A i \in 1..Len(infoCalls) :
          (infoCalls[i].kind = "archive" /\ infoCalls[i].arch.kind = "remote"
             /\ protocolTiles[infoCalls[i].arch.key].kind = "remote")
          => infoCalls[i].arch = protocolTiles[infoCalls[i].arch.key]

RegistryDedup ==
    /\ []RegistryDedupState
    /\ [][droppedArchive' = droppedArchive =>
            \A k \in Keys : protocolTiles[k] # NoHandle => protocolTiles'[k] = protocolTiles[k]]_vars

\* C1 witness: two archiveInfo calls for the same URL key are suspended on one handle
RegistryDedupWitness ==
    /\ Len(infoCalls) >= 2
    /\ infoCalls[1].kind = "archive"
    /\ infoCalls[1].arch.kind = "remote"
    /\ infoCalls[2].arch = infoCalls[1].arch
    /\ Cardinality(constructed) = 1

\* C2: once a file is dropped, the registry resolves its key to the dropped
\* archive (also when a remote archive was registered under that key), the
\* style's source is bound to that key, and every archiveInfo call made from
\* then on is a call on the dropped archive.
DroppedWinsState ==
    droppedArchive # NoHandle =>
        /\ protocolTiles[droppedArchive.key] = droppedArchive
        /\ mapStyle.sources # <<>>
        /\ mapStyle.sources[1].url = <<"pmtiles://">> \o droppedArchive.key

DroppedWins ==
    /\ []DroppedWinsState
    /\ [][(droppedArchive' # NoHandle /\ Len(infoCalls') > Len(infoCalls)) =>
            infoCalls'[Len(infoCalls')].arch = droppedArchive']_vars

\* C2 witness: a remote archive was opened for the key of the dropped file,
\* and a tile request has since resolved the key
DroppedWinsWitness ==
    /\ droppedArchive # NoHandle
    /\ \E h \in constructed : h.kind = "remote" /\ h.key = droppedArchive.key
    /\ protocolTiles[droppedArchive.key] = droppedArchive
    /\ events = 2

(***************************************************************************)
(* Properties of the published-layers effect and the compatibility effect  *)
(***************************************************************************)

\* C3: last-state-wins.  Once every layer-set fetch has resolved (none
\* failed), the override layers, and the layers of the style handed to the
\* map, are those of the selected version and the current flavor.
LastStateWins ==
    (phase = "mounted" /\ npmVersion # <<>> /\ layerFetches = <<>>
       /\ "layers rejected" \notin unhandled)
    => /\ npmLayers = LayersForVersion(npmVersion, flavorName)
       /\ mapStyle.layers = npmLayers

\* the major version each version string of the model stands for
MajorSpec(v) ==
    CASE v = <<"2", ".", "0", ".", "1">> -> 2
      [] v = <<"3", ".", "1">> -> 3
      [] v = <<"9", ".", "0">> -> 9
      [] v = <<"2", ".", "0">> -> 2
      [] v = <<"3", ".", "2">> -> 3
      [] OTHER -> NaN

Range(arr) == {arr[i] : i \in 1..Len(arr)}

\* the text the check is to leave for a style major and a tileset version
\* whose major is in the table
ExpectedMismatch(style, version) ==
    IF style \in Range(VERSION_COMPATIBILITY[MajorSpec(version)])
    THEN <<>>
    ELSE <<style, MajorSpec(version)>>

\* C4: a check of a tileset whose major version is absent from the table
\* raises no error and shows no message.
AbsentMajorCompatible ==
    (lastCheck.ran /\ lastCheck.meta.has
       /\ MajorSpec(lastCheck.meta.version) \notin DOMAIN VERSION_COMPATIBILITY)
    => ("TypeError" \notin unhandled /\ mismatch = <<>>)

\* C5: after a check of a tileset whose major version is in the table, the
\* mismatch text names the style major and the tileset major exactly when the
\* style major is not in the tileset's compatible set, and is empty otherwise.
CompatResult ==
    (lastCheck.ran /\ lastCheck.meta.has
       /\ MajorSpec(lastCheck.meta.version) \in DOMAIN VERSION_COMPATIBILITY)
    => mismatch = ExpectedMismatch(lastCheck.style, lastCheck.meta.version)

\* C5 witness: a check of style 5 against a tileset 2.0.1 has left its message
CompatResultWitness ==
    /\ lastCheck.ran
    /\ lastCheck.meta = [has |-> TRUE, version |-> <<"2", ".", "0", ".", "1">>]
    /\ lastCheck.style = STYLE_MAJOR_VERSION
    /\ mismatch = <<STYLE_MAJOR_VERSION, 2>>

\* the archive the view currently shows
CurrentArchive ==
    IF droppedArchive # NoHandle THEN droppedArchive ELSE protocolTiles[tiles]

\* C6: once every metadata fetch has resolved (and nothing was raised), the
\* mismatch text is the check result for the current archive and the selected
\* style version (stated for a current archive whose major is in the table).
LatestCheckDisplayed ==
    (phase = "mounted" /\ infoCalls = <<>> /\ unhandled = {}
       /\ CurrentArchive # NoHandle /\ CurrentArchive.meta.has
       /\ MajorSpec(CurrentArchive.meta.version) \in DOMAIN VERSION_COMPATIBILITY)
    => mismatch = ExpectedMismatch(StyleMajorVersion(npmVersion), CurrentArchive.meta.version)

(***************************************************************************)
(* Properties of endpoint selection                                        *)
(***************************************************************************)

\* C7 (as claimed): once an endpoint is selected and no call is in flight, no
\* further probe is issued and currentEndpoint never changes.
SelectionMemoized ==
    [][(currentEndpoint # Null /\ selCalls = {}) =>
          (probes' = probes /\ currentEndpoint' = currentEndpoint)]_vars

\* C7 (amended): the selected class is kept in currentEndpoint: it changes
\* only in a step that resolves a selectBestEndpoint call, and a probe is
\* issued only by a step that starts a selectBestEndpoint call on a localhost
\* or GitHub Pages page (so no getter probes or reselects); on any other
\* host a later call issues no probe and leaves the class as it is.
SelectionStored ==
    [][/\ probes' # probes =>
            (nStarted' = nStarted + 1 /\ (isLocalhost \/ isGitHubPages))
       /\ currentEndpoint' # currentEndpoint => nResolved' = nResolved + 1
       /\ (~isLocalhost /\ ~isGitHubPages /\ currentEndpoint # Null) =>
            (probes' = probes /\ currentEndpoint' = currentEndpoint)]_vars

\* C7 witness: the class is caddy and a second call's probe has returned false
SelectionStoredWitness ==
    /\ currentEndpoint = "caddy"
    /\ nResolved = 1
    /\ probes = 2
    /\ \E c \in selCalls : c.id = 2 /\ c.pc = "probed" /\ ~c.ok

ProbeNeverThrows ==
    \A c \in selCalls :
        /\ c.pc \in {"probing", "probed"}
        /\ c.pc = "probed" =>
              /\ c.outcome \in {"response", "network", "abort"}
              /\ c.ok <=> (c.outcome = "response" /\ c.status >= 200 /\ c.status <= 299)

\* C9 witness: a probe whose fetch was rejected has returned false
ProbeNeverThrowsWitness ==
    \E c \in selCalls : c.pc = "probed" /\ c.outcome = "network" /\ ~c.ok

\* C10: every selectBestEndpoint call in flight eventually resolves, whether
\* or not the health endpoint ever answers; a probe ended by its timer has
\* returned false with its request aborted; and a resolved call has selected
\* an endpoint class.
ProbeBounded ==
    /\ \A i \in 1..MaxSelect :
          (\E c \in selCalls : c.id = i) ~> (\A c \in selCalls : c.id # i)
    /\ [](\A c \in selCalls : c.outcome = "abort" =>
              (c.pc = "probed" /\ ~c.ok /\ c.id \notin timers))
    /\ [](nResolved > 0 => currentEndpoint \in {"caddy", "github"})

\* C10 witness: the health endpoint never answered the only probe, the timer
\* ended it, and the call resolved to the fallback
ProbeBoundedWitness ==
    /\ probes = 1
    /\ nResolved = 1
    /\ timers = {}
    /\ selCalls = {}
    /\ currentEndpoint = "github"
    /\ lastOutcome = "abort"

\* C11: getMVTUrl returns a URL (the caddy mvt base, the table and the tile
\* template) exactly when currentEndpoint is 'caddy' at the call and null
\* otherwise, also before any selection; isMVTAvailable returns true in
\* exactly the same states and false in the others.
MvtOnlyOnCaddy ==
    /\ outOp = "getMVTUrl" =>
          /\ outAt = "caddy" => \E t \in TableNames : out = <<CaddyMvt, "/", t, "/{z}/{x}/{y}">>
          /\ outAt # "caddy" => out = <<Null>>
    /\ outOp = "isMVTAvailable" =>
          /\ outAt = "caddy" => out = <<"true">>
          /\ outAt # "caddy" => out = <<"false">>

\* C11 witness: getMVTUrl has returned a URL after caddy was selected
MvtOnlyOnCaddyWitness ==
    /\ outOp = "getMVTUrl"
    /\ outAt = "caddy"
    /\ currentEndpoint = "caddy"
    /\ out # <<Null>>

(***************************************************************************)
(* Properties of style composition                                         *)
(***************************************************************************)

\* the call had a tile source and a theme
Resolved == cArgs.tiles # <<>> /\ cArgs.hasFlavor

\* C12: a call of getMaplibreStyle whose tile source or theme is unresolved
\* returns a document with no source and no layer, whatever the other
\* arguments are; the style the map is constructed with at mount is such a
\* document.
EmptyWhenUnresolved ==
    /\ (cOp = "compose" /\ ~Resolved) => (cOut.sources = <<>> /\ cOut.layers = <<>>)
    /\ cOp = "mount" => (cOut.sources = <<>> /\ cOut.layers = <<>>)

\* C12 witness: a call with a tile source and override layers but no theme
EmptyWhenUnresolvedWitness ==
    /\ cOp = "compose"
    /\ cArgs.tiles # <<>>
    /\ ~cArgs.hasFlavor
    /\ cArgs.npmLayers # <<>>
    /\ cOut.layers = <<>>

\* C13: with source and theme resolved the document has exactly one source,
\* of type vector, whose URL is pmtiles:// plus the dropped archive's key if
\* there is a dropped archive, else pmtiles:// plus the tiles URL if that is
\* an archive URL, else the tiles URL itself.
SourceResolution ==
    (cOp = "compose" /\ Resolved) =>
        /\ Len(cOut.sources) = 1
        /\ cOut.sources[1].type = "vector"
        /\ cArgs.droppedArchive # NoHandle =>
              cOut.sources[1].url = <<"pmtiles://">> \o cArgs.droppedArchive.key
        /\ (cArgs.droppedArchive = NoHandle /\ IsValidPMTiles(cArgs.tiles)) =>
              cOut.sources[1].url = <<"pmtiles://">> \o cArgs.tiles
        /\ (cArgs.droppedArchive = NoHandle /\ ~IsValidPMTiles(cArgs.tiles)) =>
              cOut.sources[1].url = cArgs.tiles

\* C13 witness: a dropped archive beside an archive URL of another name
SourceResolutionWitness ==
    /\ cOp = "compose"
    /\ Resolved
    /\ cArgs.droppedArchive # NoHandle
    /\ IsValidPMTiles(cArgs.tiles)
    /\ cArgs.tiles # cArgs.droppedArchive.key
    /\ cOut.sources[1].url = <<"pmtiles://">> \o cArgs.droppedArchive.key

\* C14: supplied override layers are the output layers, the same sequence in
\* the same order; the generated stack is the output only when none is supplied.
OverrideVerbatim ==
    (cOp = "compose" /\ Resolved) =>
        /\ Len(cArgs.npmLayers) > 0 => cOut.layers = cArgs.npmLayers
        /\ Len(cArgs.npmLayers) = 0 =>
              cOut.layers = Layers("protomaps", FlavorArg(cArgs), cArgs.lang)

\* C14 witness: an override that starts with roads comes out starting with roads
OverrideVerbatimWitness ==
    /\ cOp = "compose"
    /\ Resolved
    /\ Len(cArgs.npmLayers) = 2
    /\ cArgs.npmLayers[1].id = "roads"
    /\ Len(cOut.layers) = 2
    /\ cOut.layers[1].id = "roads"

\* C15: without override layers the output is the theme's stack, each
\* canonical layer once and in the order land, water, roads, for every theme
\* name and language.
LayerOrder ==
    (cOp = "compose" /\ Resolved /\ cArgs.npmLayers = <<>>) =>
        /\ Len(cOut.layers) = Len(LayerIds)
        /\ \A i \in 1..Len(LayerIds) :
              /\ cOut.layers[i].id = LayerIds[i]
              /\ cOut.layers[i].flavor = cArgs.flavorName
              /\ cOut.layers[i].lang = cArgs.lang

\* C15 witness: the dark theme in French, composed into its three layers
LayerOrderWitness ==
    /\ cOp = "compose"
    /\ Resolved
    /\ cArgs.npmLayers = <<>>
    /\ cArgs.flavorName = "dark"
    /\ cArgs.lang = "fr"
    /\ Len(cOut.layers) = 3
    /\ cOut.layers[3].id = "roads"

(***************************************************************************)
(* Properties of the fragment                                              *)
(***************************************************************************)

\* the view state a page opened with fragment text h starts in
DecodeState(h) ==
    [flavorName   |-> NameOr(ParseHash(h), "flavorName", "light"),
     lang         |-> NameOr(ParseHash(h), "lang", "en"),
     tiles        |-> TilesOr(ParseHash(h)),
     localSprites |-> IsTrue(ParseHash(h), "local_sprites"),
     showBoxes    |-> IsTrue(ParseHash(h), "show_boxes"),
     npmVersion   |-> VersionOf(ParseHash(h))]

\* the view state of the page
ViewState ==
    [flavorName |-> flavorName, lang |-> lang, tiles |-> tiles,
     localSprites |-> localSprites, showBoxes |-> showBoxes, npmVersion |-> npmVersion]

ViewKeys == {"flavorName", "lang", "tiles", "local_sprites", "show_boxes", "npm_version"}

NoDefaultKeys ==
    phase = "mounted" =>
        /\ flavorName = "light" => ~HasKey(ParseHash(locHash), "flavorName")
        /\ lang = "en" => ~HasKey(ParseHash(locHash), "lang")
        /\ tiles = DEFAULT_TILES => ~HasKey(ParseHash(locHash), "tiles")
        /\ ~localSprites => ~HasKey(ParseHash(locHash), "local_sprites")
        /\ ~showBoxes => ~HasKey(ParseHash(locHash), "show_boxes")
        /\ npmVersion = <<>> => ~HasKey(ParseHash(locHash), "npm_version")

NotViewKey(pair) == pair.k \notin ViewKeys

\* the pairs of a fragment that are no view-state fields, in their order
OtherPairs(h) == SelectSeq(ParseHash(h), NotViewKey)

\* C18: a step that runs the hash effect (the page is rendered, the theme
\* changes or a file is dropped) leaves the pairs of the fragment that are
\* no view-state fields as they were, the map's camera key among them.
FramePreserved ==
    [][(phase' # phase \/ flavorName' # flavorName \/ droppedArchive' # droppedArchive)
          => OtherPairs(locHash') = OtherPairs(locHash)]_vars

\* C18 witness: the map wrote its camera and the theme was changed to dark
FramePreservedWitness ==
    /\ phase = "mounted"
    /\ flavorName = "dark"
    /\ HasKey(ParseHash(locHash), "flavorName")
    /\ ValueOf(ParseHash(locHash), "flavorName") = <<"dark">>
    /\ HasKey(ParseHash(locHash), "map")
    /\ ValueOf(ParseHash(locHash), "map") \in Cameras
    /\ HasKey(ParseHash(locHash), "x")

\* C19 (as claimed): while a dropped archive is active, the fragment of the
\* page does not decode to the view state that the fragment written for the
\* default tile source (no dropped archive, the other signals as they are)
\* decodes to.
DroppedNotAbsent ==
    (phase = "mounted" /\ droppedArchive # NoHandle) =>
        DecodeState(locHash) #
        DecodeState(CreateHash(locHash,
                               HashRecord(flavorName, lang, DEFAULT_TILES, localSprites,
                                          showBoxes, npmVersion, NoHandle)))

\* key k stands at the start of a piece of the fragment text h
KeyInText(h, k) ==
    \E i \in 2..Len(h) : h[i] = k /\ h[i - 1] \in {"#", "&"}

\* the piece k=true stands in the fragment text h
TrueInText(h, k) ==
    \E i \in 2..(Len(h) - 2) :
        /\ h[i] = k /\ h[i - 1] \in {"#", "&"}
        /\ h[i + 1] = "=" /\ h[i + 2] = "true"
        /\ (i + 2 = Len(h) \/ h[i + 3] = "&")

\* C20: a page opened with any fragment has the theme light, the language
\* en, the default tile URL and no published version where the fragment has
\* no such key, each flag true only where the fragment has key=true, and
\* every field at its default where the fragment has no decodable key=value
\* piece at all; rendering it raises no error.
DefaultsApplied ==
    /\ ~KeyInText(openedWith, "flavorName") => flavorName = "light"
    /\ ~KeyInText(openedWith, "lang") => lang = "en"
    /\ ~KeyInText(openedWith, "tiles") => tiles = DEFAULT_TILES
    /\ ~KeyInText(openedWith, "npm_version") => npmVersion = <<>>
    /\ localSprites => TrueInText(openedWith, "local_sprites")
    /\ showBoxes => TrueInText(openedWith, "show_boxes")
    /\ ParseHash(openedWith) = <<>> =>
          ViewState = [flavorName |-> "light", lang |-> "en", tiles |-> DEFAULT_TILES,
                       localSprites |-> FALSE, showBoxes |-> FALSE, npmVersion |-> <<>>]
    /\ ViewState = DecodeState(openedWith)
    /\ tiles # <<>>
    /\ unhandled = {}

\* C20 witness: a page opened with a language value that cannot be decoded
\* has been rendered in English
DefaultsAppliedWitness ==
    /\ phase = "mounted"
    /\ openedWith = <<"#", "lang", "=", "%">>
    /\ lang = "en"
    /\ mapStyle.layers # <<>>
    /\ mapStyle.layers[1].lang = "en"

\* every handle in the registry is a constructed handle filed under its own key
RegistryWhole ==
    \A k \in Keys :
        protocolTiles[k] # NoHandle =>
            /\ protocolTiles[k] \in constructed
            /\ protocolTiles[k].key = k
            /\ protocolTiles[k].kind \in {"remote", "file"}
            /\ protocolTiles[k].meta \in Metas

\* C21: a handle is in the registry only as a constructed handle under its
\* own key, and in the step in which a caller starts to await the header and
\* metadata of a handle, that handle has been constructed and is the handle the
\* registry holds for its key.
PublishedBeforeAwait ==
    /\ []RegistryWhole
    /\ [][Len(infoCalls') > Len(infoCalls) =>
            LET c == infoCalls'[Len(infoCalls')]
            IN  c.kind = "archive" =>
                    /\ c.arch \in constructed'
                    /\ protocolTiles'[c.arch.key] = c.arch]_vars

\* C21 witness: two callers await the metadata of the same handle, opened by
\* the first of them, and it is the handle registered for its key
PublishedBeforeAwaitWitness ==
    /\ Len(infoCalls) >= 2
    /\ infoCalls[1].kind = "archive"
    /\ infoCalls[1].caller = "effect"
    /\ infoCalls[2].caller = "idle"
    /\ infoCalls[2].arch = infoCalls[1].arch
    /\ infoCalls[1].arch.kind = "remote"
    /\ protocolTiles[infoCalls[1].arch.key] = infoCalls[1].arch

\* C22 (as claimed): a failed header, metadata or TileJSON fetch is absorbed by
\* the caller of archiveInfo: no rejected operation is surfaced.
FetchFailureAbsorbed ==
    "rejected" \notin unhandled

\* C23 (as claimed): metadata without a version or without a provenance
\* timestamp is used only after a check that the field is present: the
\* timeliness text is never built from the value of an absent field (which
\* reads "undefined").
AbsentFieldsChecked ==
    \A i \in 1..Len(timelinessInfo) : timelinessInfo[i] # "undefined"

\* C24 (as claimed): once the component is torn down, the tile-protocol
\* intercept is unregistered and the protocol reference is cleared.
TeardownUnregisters ==
    phase = "disposed" => (~pmtilesProtocol /\ ~protocolRef)

(***************************************************************************)
(* Properties of the decoding of feature ids                               *)
(***************************************************************************)

\* the tag of a value: (v div 2^44) mod 4
TagOf(v) ==
    (IF OsmIdBits \in v THEN 1 ELSE 0) + (IF (OsmIdBits + 1) \in v THEN 2 ELSE 0)

\* v mod 2^44
LocalIdOf(v) == {i \in v : i < OsmIdBits}

TagNames == <<"not_osm", "node", "way", "relation">>

\* C25: for every feature id, the id decoded is the id modulo 2^44 and the
\* kind decoded is that of the tag (id div 2^44) mod 4 (1 node, 2 way, 3
\* relation, 0 not a tagged feature); the id with its bits above bit 45 cleared
\* decodes to the same; and a link is displayed exactly for a non-zero id whose
\* tag is not 0, to the kind and id so decoded.
DecodingRight ==
    LET v   == BigInt(fId)
        low == [form |-> "number", bits |-> {i \in v : i <= OsmIdBits + 1}, text |-> <<>>]
    IN  /\ fDecoded # NoDecoding =>
              /\ fDecoded.osmId = LocalIdOf(v)
              /\ fDecoded.osmType = TagNames[TagOf(v) + 1]
              /\ fDecoded.osmId = FeatureIdToOsmId(low)
              /\ fDecoded.osmType = FeatureIdToOsmType(low)
        /\ fOp = "display" =>
              /\ fShown.link <=> (fId # NoId /\ v # {} /\ TagOf(v) # 0)
              /\ fShown.link =>
                    /\ fShown.osmType = TagNames[TagOf(v) + 1]
                    /\ fShown.osmId = LocalIdOf(v)

\* C25 witness: the id 2^64 - 1, given as a decimal string, is displayed as
\* a link to the relation 2^44 - 1
DecodingRightWitness ==
    /\ fOp = "display"
    /\ fId.form = "string"
    /\ Len(fId.text) = 20
    /\ BigInt(fId) = Positions
    /\ fDecoded.osmType = "relation"
    /\ fShown.link
    /\ fShown.osmType = "relation"
    /\ fShown.osmId = 0..(OsmIdBits - 1)

(***************************************************************************)
(* Properties of the lifecycle of handles                                  *)
(***************************************************************************)

\* C26 (as claimed): a dropped file's handle replaces the handle of the file
\* dropped before it: the registry never holds the handles of two dropped
\* files at once.
OneDroppedHandle ==
    Cardinality({k \in Keys : protocolTiles[k].kind = "file"}) <= 1

(***************************************************************************)
(* Properties of the long press                                            *)
(***************************************************************************)

\* C27 (as claimed): after an event that cancels a long press no long-press
\* timer armed before it is left pending, and the callback of a timer runs
\* (showing the context menu) only if no cancelling event followed the timer's
\* touch start; also when several touch starts came before the event.
LongPressCancelled ==
    /\ pressTimers \cap pressCancelled = {}
    /\ pressShown \cap pressCancelled = {}

(***************************************************************************)
(* Properties of the static-tile URLs                                      *)
(***************************************************************************)

\* the static-tile base of the selected endpoint class
StaticBase == IF currentEndpoint = "caddy" THEN <<CaddyPmtiles>> ELSE githubPmtiles

\* C28 (as claimed): whenever an endpoint class is selected its static-tile
\* base is a string, not null, on every host, and no static-tile URL returned
\* is built from a null base.
StaticBaseDefined ==
    /\ currentEndpoint # Null => StaticBase # <<Null>>
    /\ outOp \in {"getPMTilesUrl", "getPMTilesBaseUrl"} =>
          \A i \in 1..Len(out) : out[i] # Null

\* C29: a static-tile getter raises an error exactly when no endpoint is
\* selected at the call (also while a probe is in flight); a call of a getter
\* leaves the configuration as it was; and a selection, once made, is never
\* undone, so that the getters never raise after it.
GettersRaiseIffUnselected ==
    /\ [](outOp \in {"getPMTilesUrl", "getPMTilesBaseUrl"} =>
             (out = <<"throw">>) <=> (outAt = Null))
    /\ [][<<out, outOp, outAt>>' # <<out, outOp, outAt>> =>
             UNCHANGED <<envVars, currentEndpoint, selCalls, timers, probes,
                         nStarted, nResolved, lastReturn, lastOutcome>>]_vars
    /\ [][currentEndpoint # Null => currentEndpoint' # Null]_vars

\* C29 witness: a getter has raised while a probe was in flight
GettersRaiseIffUnselectedWitness ==
    /\ outOp = "getPMTilesUrl"
    /\ out = <<"throw">>
    /\ outAt = Null
    /\ selCalls # {}
    /\ currentEndpoint = Null

(***************************************************************************)
(* Properties of a dropped archive                                         *)
(***************************************************************************)

\* C30: a dropped archive is never cleared (a later drop puts another in its
\* place); and from the drop on, the style handed to the map binds its source
\* to the key of the dropped archive, whatever the tile URL is, and the
\* fragment has no key tiles.
DroppedSticks ==
    /\ [][droppedArchive # NoHandle => droppedArchive' # NoHandle]_vars
    /\ [](droppedArchive # NoHandle =>
             /\ Len(mapStyle.sources) = 1
             /\ mapStyle.sources[1].url = <<"pmtiles://">> \o droppedArchive.key
             /\ ~HasKey(ParseHash(locHash), "tiles")
             /\ ~KeyInText(locHash, "tiles"))

\* C30 witness: a page opened with a tile URL in its fragment, after a file
\* of another name was dropped and the theme changed: the style is bound to the
\* file and the fragment has lost its key tiles
DroppedSticksWitness ==
    /\ droppedArchive # NoHandle
    /\ KeyInText(openedWith, "tiles")
    /\ tiles # DEFAULT_TILES
    /\ droppedArchive.key # tiles
    /\ flavorName = "dark"
    /\ events = MaxEvents
    /\ mapStyle.sources[1].url = <<"pmtiles://">> \o droppedArchive.key
    /\ ~KeyInText(locHash, "tiles")
    /\ KeyInText(locHash, "flavorName")

====
